---- MODULE Spec2Model ----
(***************************************************************************)
(* Model of App/app.py, the Streamlit "Decision Intelligence Dashboard".   *)
(*                                                                         *)
(* One Streamlit process serves several browser sessions.  Every user      *)
(* interaction re-runs the whole script for that session.  The script      *)
(* draws the page header, calls load_data() (memoised process-wide by      *)
(* @st.cache_data), draws the sidebar and then the selected page.          *)
(*                                                                         *)
(* A data frame is [cols |-> set of column names, rows |-> sequence of     *)
(* rows], a row being a function from the frame's columns to values.       *)
(* What a run has put on the page is a sequence of elements                *)
(* [kind, label, data].                                                    *)
(***************************************************************************)
EXTENDS Integers, Sequences, FiniteSets, TLC

VARIABLES
    disk,       \* the files beside app.py
    cache,      \* st.cache_data's entry for load_data(): <<>> or <<tables>>
    lock,       \* holder of the cache entry's compute lock, or "free"
    reads,      \* how many times the body of load_data() has executed
    pc,         \* per session: "idle", "wait", "compute", "done"
    page,       \* per session: value of the sidebar radio
    scenarios,  \* per session: value of the scenario multiselect
    segIdx,     \* per session: index chosen in the segment selectbox
    frames,     \* per session: forecast_df, roi_df, segment_df of the run
    out         \* per session: elements rendered by the current/last run

vars == <<disk, cache, lock, reads, pc, page, scenarios, segIdx, frames, out>>

\* Bounds of the model.
MaxRows == 2
MaxReads == 2

Sessions == {"s1", "s2"}

----------------------------------------------------------------------------
\* Generic helpers.

RECURSIVE SumSeq(_)
SumSeq(s) == IF s = <<>> THEN 0 ELSE Head(s) + SumSeq(Tail(s))

RECURSIVE Reverse(_)
Reverse(s) == IF s = <<>> THEN <<>> ELSE Append(Reverse(Tail(s)), Head(s))

RECURSIVE GCD(_, _)
GCD(a, b) == IF b = 0 THEN a ELSE GCD(b, a % b)

Abs(n) == IF n < 0 THEN -n ELSE n

RECURSIVE Ascending(_)
\* The members of a set of integers, smallest first.
Ascending(S) ==
    IF S = {} THEN <<>>
    ELSE LET m == CHOOSE x \in S : \A y \in S : x <= y
         IN  <<m>> \o Ascending(S \ {m})

SeqsUpTo(S, n) == UNION {[1..k -> S] : k \in 0..n}

Perms(n) == {p \in [1..n -> 1..n] : \A i, j \in 1..n : p[i] = p[j] => i = j}

----------------------------------------------------------------------------
\* Floating-point values as the script sees them: a finite value is the
\* reduced fraction num/den (standing for the nearest double), and division
\* by zero yields the IEEE specials instead of raising.

NaN == [cls |-> "nan", num |-> 0, den |-> 0]

Inf(sign) == [cls |-> "inf", num |-> sign, den |-> 0]

FromInt(n) == [cls |-> "fin", num |-> n, den |-> 1]

Fin(n, d) ==
    LET g == GCD(Abs(n), d)
    IN  [cls |-> "fin", num |-> n \div g, den |-> d \div g]

\* numpy true division of two numbers of a row (line 174).
TrueDiv_Guarded(a, b) ==
    IF b = 0 THEN FromInt(0)
    ELSE IF b > 0 THEN Fin(a, b) ELSE Fin(-a, -b)

TrueDiv(a, b) ==
    IF b = 0
    THEN IF a = 0 THEN NaN ELSE IF a > 0 THEN Inf(1) ELSE Inf(-1)
    ELSE IF b > 0 THEN Fin(a, b) ELSE Fin(-a, -b)

\* Series.mean() (line 74): NaN for an empty series.
Mean_ZeroIfEmpty(xs) == IF Len(xs) = 0 THEN FromInt(0) ELSE Fin(SumSeq(xs), Len(xs))

Mean(xs) == IF Len(xs) = 0 THEN NaN ELSE Fin(SumSeq(xs), Len(xs))

Pow10(d) == IF d = 0 THEN 1 ELSE IF d = 1 THEN 10 ELSE 100

\* Round n/d (d > 0) to the nearest integer, ties to even.
RoundHalfEven(n, d) ==
    LET a == Abs(n)
        q == a \div d
        r == a % d
        m == IF 2 * r > d \/ (2 * r = d /\ q % 2 = 1) THEN q + 1 ELSE q
    IN  IF n < 0 THEN -m ELSE m

\* f"{x:.<digits>f}": the decimal text, kept as the integer scaled by
\* 10^digits; "nan" and "inf" format as those words.
Format(x, digits) ==
    IF x.cls = "fin"
    THEN [text |-> "number", scaled |-> RoundHalfEven(x.num * Pow10(digits), x.den),
          digits |-> digits]
    ELSE [text |-> IF x.cls = "inf" /\ x.num < 0 THEN "-inf" ELSE x.cls,
          scaled |-> 0, digits |-> digits]

----------------------------------------------------------------------------
\* Data frames.

FORECAST_COLS == {"Date", "Base_Forecast", "Best_Case", "Worst_Case", "Upper_CI", "Lower_CI"}
ROI_COLS == {"Segment", "Investment", "Projected_Gain", "ROI", "BreakEven_Revenue"}
SEGMENT_COLS == {"Cluster", "Decision_Action", "Customer_Count", "Avg_Recency",
                 "Avg_Frequency", "Avg_Monetary"}

File(cols, rows) == [present |-> TRUE, cols |-> cols, rows |-> rows]

MissingFile == [present |-> FALSE, cols |-> {}, rows |-> <<>>]

DropCol(f, c) ==
    [f EXCEPT !.cols = @ \ {c},
              !.rows = [i \in 1..Len(f.rows) |->
                          [k \in (DOMAIN f.rows[i]) \ {c} |-> f.rows[i][k]]]]

Column(df, c) == [i \in 1..Len(df.rows) |-> df.rows[i][c]]

\* pd.read_csv (lines 25-27): the frame of a present file.
read_csv(f) == [cols |-> f.cols, rows |-> f.rows]

\* A Date cell of a file is its text, kept as the text's fields in reading
\* order: [text |-> <<31, 1, 2025>>] for "31/01/2025", [text |-> <<>>] for
\* text that is no date.
DateText(fields) == [text |-> fields]

ParsesDayFirst(c) == Len(c.text) = 3 /\ c.text[1] \in 1..31 /\ c.text[2] \in 1..12

\* pd.to_datetime(..., dayfirst=True) of one cell (line 30).
to_datetime(c) == [year |-> c.text[3], month |-> c.text[2], day |-> c.text[1]]

\* Line 30: forecast_df['Date'] = pd.to_datetime(forecast_df['Date'], dayfirst=True)
DateCheck_Skipped(fc) == [ok |-> TRUE, err |-> "", df |-> fc]

DateCheck(fc) ==
    IF "Date" \notin fc.cols THEN [ok |-> FALSE, err |-> "KeyError", df |-> fc]
    ELSE IF \E i \in 1..Len(fc.rows) : ~ParsesDayFirst(fc.rows[i]["Date"])
    THEN [ok |-> FALSE, err |-> "ValueError", df |-> fc]
    ELSE [ok |-> TRUE, err |-> "",
          df |-> [fc EXCEPT !.rows =
                    [i \in 1..Len(fc.rows) |->
                       [fc.rows[i] EXCEPT !["Date"] = to_datetime(@)]]]]

NoTables == [forecast_df |-> [cols |-> {}, rows |-> <<>>],
             roi_df |-> [cols |-> {}, rows |-> <<>>],
             segment_df |-> [cols |-> {}, rows |-> <<>>]]

\* The body of load_data() (lines 24-31) run against the files d.
load_data(d) ==
    IF ~d.forecast.present \/ ~d.roi.present \/ ~d.segment.present
    THEN [ok |-> FALSE, err |-> "FileNotFoundError", value |-> NoTables]
    ELSE LET dc == DateCheck(read_csv(d.forecast))
         IN  IF ~dc.ok
             THEN [ok |-> FALSE, err |-> dc.err, value |-> NoTables]
             ELSE [ok |-> TRUE, err |-> "",
                   value |-> [forecast_df |-> dc.df,
                              roi_df |-> read_csv(d.roi),
                              segment_df |-> read_csv(d.segment)]]

----------------------------------------------------------------------------
\* The script after load_data(): elements, statements, uncaught exceptions.

El(kind, label, data) == [kind |-> kind, label |-> label, data |-> data]

\* An uncaught exception: Streamlit shows it where the script stood.
Exc(type, what) == El("exception", type, <<what>>)

\* A statement of the script: whether it completes, what it renders if it
\* does, and what it raises if it does not.
Stmt(ok, els, err) == [ok |-> ok, els |-> IF ok THEN els ELSE <<>>, err |-> err]

Show(els) == Stmt(TRUE, els, Exc("", ""))

RECURSIVE Exec(_, _)

\* Nothing in the pages catches an exception (the one try/except, lines
\* 101-106, catches ImportError only): the statement that raises ends the
\* run, and the statements after it are not executed.
Propagate_Continue(acc, err, rest) == Exec(rest, Append(acc, err))

Propagate(acc, err, rest) == Append(acc, err)

Exec(stmts, acc) ==
    IF stmts = <<>> THEN acc
    ELSE IF Head(stmts).ok THEN Exec(Tail(stmts), acc \o Head(stmts).els)
    ELSE Propagate(acc, Head(stmts).err, Tail(stmts))

\* The frames of a run: fr is <<>> when load_data() returned nothing and the
\* names forecast_df, roi_df, segment_df are unbound.
Bound(fr) == fr # <<>>

Has(fr, tbl, cols) == Bound(fr) /\ cols \subseteq fr[1][tbl].cols

\* What reading columns cols of frame tbl raises when it fails.
Lookup(fr, tbl, cols, type) ==
    IF ~Bound(fr) THEN Exc("NameError", tbl)
    ELSE IF cols \subseteq fr[1][tbl].cols THEN Exc("", "")
    ELSE Exc(type, CHOOSE c \in cols : c \notin fr[1][tbl].cols)

Tbl(fr, tbl) == IF Bound(fr) THEN fr[1][tbl] ELSE NoTables[tbl]

\* Column c of frame tbl, or <<>> where it cannot be read.
Col(fr, tbl, c) == IF Has(fr, tbl, {c}) THEN Column(fr[1][tbl], c) ELSE <<>>

Cell(fr, tbl, i, c) ==
    IF Has(fr, tbl, {c}) /\ i \in 1..Len(fr[1][tbl].rows) THEN fr[1][tbl].rows[i][c] ELSE 0

Metric(label, value, text) == El("metric", label, <<value, text>>)

Trace(name, x, y) == [name |-> name, x |-> x, y |-> y]

PAGES == <<"Executive Summary", "Customer Segmentation", "Revenue Forecasting", "ROI Analysis">>

SCENARIO_OPTIONS == <<"Base_Forecast", "Best_Case", "Worst_Case">>

\* Lines 34-52: logo (or its placeholder), title, rule.
Chrome(d) ==
    << IF d.logo THEN El("image", "Mu_sigma_logo.jpg", <<>>)
       ELSE El("info", "Logo Placeholder", <<>>),
       El("markdown", "Decision Intelligence Dashboard", <<>>),
       El("markdown", "---", <<>>) >>

\* Lines 62-64.
Sidebar(pg) ==
    << El("sidebar_header", "Navigation", <<>>),
       El("radio", "Navigate to:", <<pg>>) >>

----------------------------------------------------------------------------
\* Page 1, Executive Summary (lines 67-94).

\* The row orders roi_df.sort_values('ROI', ascending=False) may produce:
\* pandas sorts with kind='quicksort' by default, which orders the rows by
\* ROI and promises nothing about rows of equal ROI.
SortOrders(roi) ==
    LET n == Len(roi)
    IN  {p \in Perms(n) : \A i \in 1..n - 1 : roi[p[i]] >= roi[p[i + 1]]}

\* The orders the sort of this run's roi_df may take (line 91).
RunOrders(fr) ==
    IF Has(fr, "roi_df", {"ROI"}) THEN SortOrders(Col(fr, "roi_df", "ROI"))
    ELSE {<<>>}

\* sort_values returns a new frame (line 91).
sort_values(df, order) ==
    [df EXCEPT !.rows = [i \in 1..Len(order) |-> df.rows[order[i]]]]

\* What roi_df itself is after line 91: sort_values is not in place.
RoiAfterSort_Inplace(df, order) == sort_values(df, order)

RoiAfterSort(df, order) == df

ExecutiveSummary(fr, order) ==
    LET kpi == /\ Has(fr, "segment_df", {"Customer_Count"})
               /\ Has(fr, "roi_df", {"Projected_Gain", "ROI", "Investment"})
        total_customers == SumSeq(Col(fr, "segment_df", "Customer_Count"))
        total_gain == SumSeq(Col(fr, "roi_df", "Projected_Gain"))
        avg_roi == Mean(Col(fr, "roi_df", "ROI"))
        total_inv == SumSeq(Col(fr, "roi_df", "Investment"))
        sorted == IF Has(fr, "roi_df", {"ROI"})
                  THEN sort_values(Tbl(fr, "roi_df"), order) ELSE Tbl(fr, "roi_df")
    IN  Exec(<<
          Show(<<El("header", "Executive Summary", <<>>)>>),
          \* lines 72-75
          Stmt(kpi, <<>>,
               IF ~Has(fr, "segment_df", {"Customer_Count"})
               THEN Lookup(fr, "segment_df", {"Customer_Count"}, "KeyError")
               ELSE Lookup(fr, "roi_df", {"Projected_Gain", "ROI", "Investment"}, "KeyError")),
          \* lines 77-80
          Stmt(kpi,
               << Metric("Total Customers", FromInt(total_customers),
                         Format(FromInt(total_customers), 0)),
                  Metric("Projected Gain", FromInt(total_gain),
                         Format(FromInt(total_gain), 0)),
                  Metric("Avg ROI Multiplier", avg_roi, Format(avg_roi, 1)),
                  Metric("Total Investment", FromInt(total_inv),
                         Format(FromInt(total_inv), 0)) >>,
               Exc("NameError", "total_customers")),
          Show(<<El("markdown", "Strategic Overview", <<>>)>>),
          \* lines 85-88
          Stmt(Has(fr, "segment_df", {"Customer_Count", "Decision_Action"}),
               <<El("plotly_chart", "Customers by Strategic Action",
                    <<Trace("pie", Col(fr, "segment_df", "Decision_Action"),
                            Col(fr, "segment_df", "Customer_Count"))>>)>>,
               Lookup(fr, "segment_df", {"Customer_Count", "Decision_Action"}, "ValueError")),
          \* lines 91-94
          Stmt(Has(fr, "roi_df", {"ROI", "Segment"}),
               <<El("plotly_chart", "ROI Efficiency per Segment",
                    <<Trace("bar", Column(sorted, "Segment"), Column(sorted, "ROI"))>>)>>,
               Lookup(fr, "roi_df", {"ROI", "Segment"}, "KeyError"))
        >>, <<>>)

----------------------------------------------------------------------------
\* Page 2, Customer Segmentation (lines 97-119).

CustomerSegmentation(fr) ==
    Exec(<<
      Show(<<El("header", "Customer Segmentation Analysis", <<>>),
             El("subheader", "Segment Performance Data", <<>>)>>),
      \* lines 101-106, with matplotlib installed: the styled frame is drawn
      Stmt(Has(fr, "segment_df", {"Avg_Monetary"}),
           <<El("dataframe", "segment_df", Tbl(fr, "segment_df").rows)>>,
           Lookup(fr, "segment_df", {"Avg_Monetary"}, "KeyError")),
      Show(<<El("subheader", "RFM: Recency vs Frequency", <<>>)>>),
      \* lines 111-114
      Stmt(Has(fr, "segment_df", {"Avg_Recency", "Avg_Frequency", "Customer_Count",
                                  "Decision_Action", "Cluster"}),
           <<El("plotly_chart", "RFM scatter",
                <<Trace("scatter", Col(fr, "segment_df", "Avg_Recency"),
                        Col(fr, "segment_df", "Avg_Frequency"))>>)>>,
           Lookup(fr, "segment_df", {"Avg_Recency", "Avg_Frequency", "Customer_Count",
                                     "Decision_Action", "Cluster"}, "ValueError")),
      Show(<<El("subheader", "Monetary Value by Cluster", <<>>)>>),
      \* lines 118-119
      Stmt(Has(fr, "segment_df", {"Cluster", "Avg_Monetary", "Decision_Action"}),
           <<El("plotly_chart", "Monetary bar",
                <<Trace("bar", Col(fr, "segment_df", "Cluster"),
                        Col(fr, "segment_df", "Avg_Monetary"))>>)>>,
           Lookup(fr, "segment_df", {"Cluster", "Avg_Monetary", "Decision_Action"}, "ValueError"))
    >>, <<>>)

----------------------------------------------------------------------------
\* Page 3, Revenue Forecasting (lines 122-151).

\* The scenarios the loop of line 141 draws: the multiselect's value as it
\* is; default=['Base_Forecast'] (line 127) is only the widget's initial value.
LineScenarios_BaseIfEmpty(sel) == IF sel = <<>> THEN <<"Base_Forecast">> ELSE sel

LineScenarios(sel) == sel

\* Lines 132-137: the shaded band runs out along Upper_CI and back along Lower_CI.
Band(fr) ==
    Trace("95% Confidence Interval",
          Col(fr, "forecast_df", "Date") \o Reverse(Col(fr, "forecast_df", "Date")),
          Col(fr, "forecast_df", "Upper_CI") \o Reverse(Col(fr, "forecast_df", "Lower_CI")))

\* Lines 141-143, one trace per scenario.
Lines(fr, sel) ==
    [i \in 1..Len(sel) |->
        Trace(sel[i], Col(fr, "forecast_df", "Date"), Col(fr, "forecast_df", sel[i]))]

RevenueForecasting(fr, sel) ==
    LET drawn == LineScenarios(sel)
        need == {"Date"} \cup {drawn[i] : i \in 1..Len(drawn)}
    IN  Exec(<<
          Show(<<El("header", "Revenue Forecasting Scenarios", <<>>),
                 El("multiselect", "Select Scenarios to Compare:", sel)>>),
          \* lines 132-137
          Stmt(Has(fr, "forecast_df", {"Date", "Upper_CI", "Lower_CI"}), <<>>,
               Lookup(fr, "forecast_df", {"Date", "Upper_CI", "Lower_CI"}, "KeyError")),
          \* lines 141-143
          Stmt(Has(fr, "forecast_df", need), <<>>,
               Lookup(fr, "forecast_df", need, "KeyError")),
          \* lines 145-151
          Show(<<El("plotly_chart", "6-Month Revenue Projection",
                    <<Band(fr)>> \o Lines(fr, drawn)),
                 El("info", "Shaded area represents the statistical variance of the Base Forecast.",
                    <<>>)>>)
        >>, <<>>)

----------------------------------------------------------------------------
\* Page 4, ROI Analysis (lines 154-175).

RECURSIVE Unique(_, _)
\* Series.unique(): the distinct values in order of first appearance.
Unique(s, seen) ==
    IF s = <<>> THEN <<>>
    ELSE IF Head(s) \in seen THEN Unique(Tail(s), seen)
    ELSE <<Head(s)>> \o Unique(Tail(s), seen \cup {Head(s)})

\* st.selectbox (line 167): the option at the chosen index, the first by
\* default, None when there is no option.
Selected(options, idx) ==
    IF options = <<>> THEN "None"
    ELSE IF idx \in 1..Len(options) THEN options[idx] ELSE options[1]

\* roi_df[roi_df['Segment'] == sel_seg]: the indices of the matching rows,
\* in table order.
Matches(segs, sel_seg) == Ascending({i \in 1..Len(segs) : segs[i] = sel_seg})

\* .iloc[0] (line 168): the first of the matching rows.
Pick_Last(matching) == matching[Len(matching)]

Pick(matching) == matching[1]

ROIAnalysis(fr, idx) ==
    LET segs == Col(fr, "roi_df", "Segment")
        options == Unique(segs, {})
        sel_seg == Selected(options, idx)
        matching == Matches(segs, sel_seg)
        row == IF matching = <<>> THEN 0 ELSE Pick(matching)
        efficiency_score == TrueDiv(Cell(fr, "roi_df", row, "Projected_Gain"),
                                    Cell(fr, "roi_df", row, "Investment"))
    IN  Exec(<<
          Show(<<El("header", "Investment & ROI Simulation", <<>>),
                 El("subheader", "Investment Efficiency (Investment vs Gain)", <<>>)>>),
          \* lines 158-163
          Stmt(Has(fr, "roi_df", {"Segment", "Investment", "Projected_Gain"}),
               <<El("plotly_chart", "Investment vs Gain",
                    << Trace("Investment", segs, Col(fr, "roi_df", "Investment")),
                       Trace("Projected Gain", segs, Col(fr, "roi_df", "Projected_Gain")) >>)>>,
               Lookup(fr, "roi_df", {"Segment", "Investment", "Projected_Gain"}, "KeyError")),
          Show(<<El("markdown", "---", <<>>),
                 El("subheader", "Segment Deep Dive", <<>>)>>),
          \* line 167
          Stmt(Has(fr, "roi_df", {"Segment"}),
               <<El("selectbox", "Select Segment for Detailed Metrics:", <<options, sel_seg>>)>>,
               Lookup(fr, "roi_df", {"Segment"}, "KeyError")),
          \* line 168
          Stmt(matching # <<>>, <<>>, Exc("IndexError", "iloc")),
          \* line 171
          Stmt(Has(fr, "roi_df", {"ROI"}) /\ matching # <<>>,
               <<Metric("ROI Ratio", FromInt(Cell(fr, "roi_df", row, "ROI")),
                        Format(FromInt(Cell(fr, "roi_df", row, "ROI")), 2))>>,
               IF matching = <<>> THEN Exc("NameError", "seg_data")
               ELSE Lookup(fr, "roi_df", {"ROI"}, "KeyError")),
          \* line 172
          Stmt(Has(fr, "roi_df", {"BreakEven_Revenue"}) /\ matching # <<>>,
               <<Metric("Break-Even Revenue",
                        FromInt(Cell(fr, "roi_df", row, "BreakEven_Revenue")),
                        Format(FromInt(Cell(fr, "roi_df", row, "BreakEven_Revenue")), 2))>>,
               IF matching = <<>> THEN Exc("NameError", "seg_data")
               ELSE Lookup(fr, "roi_df", {"BreakEven_Revenue"}, "KeyError")),
          \* lines 174-175
          Stmt(Has(fr, "roi_df", {"Projected_Gain", "Investment"}) /\ matching # <<>>,
               <<Metric("Profit Multiplier", efficiency_score, Format(efficiency_score, 1))>>,
               IF matching = <<>> THEN Exc("NameError", "seg_data")
               ELSE Lookup(fr, "roi_df", {"Projected_Gain", "Investment"}, "KeyError"))
        >>, <<>>)

----------------------------------------------------------------------------
\* Lines 61-175: the sidebar and the selected page.

Script(fr, pg, sel, idx, order) ==
    Sidebar(pg) \o
    ( IF pg = "Executive Summary" THEN ExecutiveSummary(fr, order)
      ELSE IF pg = "Customer Segmentation" THEN CustomerSegmentation(fr)
      ELSE IF pg = "Revenue Forecasting" THEN RevenueForecasting(fr, sel)
      ELSE ROIAnalysis(fr, idx) )

\* The frames as the run leaves them.
FramesAfter(fr, pg, order) ==
    IF pg = "Executive Summary" /\ Has(fr, "roi_df", {"ROI"})
    THEN <<[fr[1] EXCEPT !.roi_df = RoiAfterSort(@, order)]>>
    ELSE fr

----------------------------------------------------------------------------
\* The files.

ForecastRow(date, base) ==
    [Date |-> date, Base_Forecast |-> base, Best_Case |-> base + 1,
     Worst_Case |-> base - 1, Upper_CI |-> base + 2, Lower_CI |-> base - 2]

ForecastOK ==
    File(FORECAST_COLS, << ForecastRow(DateText(<<31, 1, 2025>>), 10),
                          ForecastRow(DateText(<<3, 2, 2025>>), 12) >>)

ForecastBadDate ==
    File(FORECAST_COLS, << ForecastRow(DateText(<<31, 1, 2025>>), 10),
                          ForecastRow(DateText(<<>>), 12) >>)

SegmentRow(cluster, action, count) ==
    [Cluster |-> cluster, Decision_Action |-> action, Customer_Count |-> count,
     Avg_Recency |-> 5 + cluster, Avg_Frequency |-> 2 + cluster, Avg_Monetary |-> 40 + cluster]

SegmentOK ==
    File(SEGMENT_COLS, << SegmentRow(0, "Retain", 3), SegmentRow(1, "Upsell", 0),
                          SegmentRow(2, "Retain", 4) >>)

RoiRow(seg, inv, gain, roi) ==
    [Segment |-> seg, Investment |-> inv, Projected_Gain |-> gain, ROI |-> roi,
     BreakEven_Revenue |-> inv + 1]

RoiOK == File(ROI_COLS, << RoiRow("A", 2, 3, 1), RoiRow("B", 0, 3, 2) >>)

RoiEmpty == File(ROI_COLS, <<>>)

Files(logo, forecast, roi, segment) ==
    [logo |-> logo, forecast |-> forecast, roi |-> roi, segment |-> segment]

\* The file sets the sessions are run against: well-formed files, files
\* that are absent, files that lack a column, a file with a bad date.
Disks ==
    { Files(TRUE, ForecastOK, RoiOK, SegmentOK),
      Files(TRUE, MissingFile, RoiOK, SegmentOK),
      Files(TRUE, ForecastOK, RoiOK, MissingFile),
      Files(TRUE, DropCol(ForecastOK, "Date"), RoiOK, SegmentOK),
      Files(TRUE, ForecastBadDate, RoiOK, SegmentOK),
      Files(TRUE, DropCol(ForecastOK, "Best_Case"), RoiEmpty, SegmentOK),
      Files(TRUE, ForecastOK, DropCol(RoiOK, "ROI"), SegmentOK),
      Files(TRUE, ForecastOK, RoiOK, DropCol(SegmentOK, "Customer_Count")) }

\* ROI rows and tables for the runs over well-formed files.
RoiRowDomain ==
    { RoiRow(seg, m[1], m[2], roi) :
        seg \in {"A", "B"}, m \in {<<0, 0>>, <<0, 3>>, <<2, 3>>}, roi \in {1, 2} }

ViewDisks ==
    { Files(TRUE, ForecastOK, File(ROI_COLS, t), SegmentOK) :
        t \in SeqsUpTo(RoiRowDomain, MaxRows) }

\* What the files can be replaced by while the process runs.
Edits ==
    { Files(TRUE, ForecastOK, RoiOK, SegmentOK),
      Files(TRUE, MissingFile, RoiOK, SegmentOK) }

RECURSIVE Without(_, _)
Without(s, x) ==
    IF s = <<>> THEN <<>>
    ELSE IF Head(s) = x THEN Without(Tail(s), x)
    ELSE <<Head(s)>> \o Without(Tail(s), x)

\* A click in the scenario multiselect: the option is taken out of the
\* value, or put at its end.
Toggle(sel, opt) ==
    IF \E i \in 1..Len(sel) : sel[i] = opt THEN Without(sel, opt) ELSE Append(sel, opt)

----------------------------------------------------------------------------
\* State machine.

StartState ==
    /\ cache = <<>>
    /\ lock = "free"
    /\ reads = 0
    /\ pc = [s \in Sessions |-> "idle"]
    /\ page = [s \in Sessions |-> PAGES[1]]
    /\ scenarios = [s \in Sessions |-> <<"Base_Forecast">>]
    /\ segIdx = [s \in Sessions |-> 1]
    /\ frames = [s \in Sessions |-> <<>>]
    /\ out = [s \in Sessions |-> <<>>]

Init == disk \in Disks /\ StartState

ViewInit == disk \in ViewDisks /\ StartState

\* Line 59, st.stop(): nothing of the rest of the script is rendered.
AfterLoadError_NoStop(rest) == rest

AfterLoadError(rest) == <<>>

\* The run of session s goes on from line 61 with the tables fr.
Completed(s, shown, fr, pg, sel, idx) ==
    \E order \in RunOrders(fr) :
        /\ pc' = [pc EXCEPT ![s] = "done"]
        /\ out' = [out EXCEPT ![s] = shown \o Script(fr, pg, sel, idx, order)]
        /\ frames' = [frames EXCEPT ![s] = FramesAfter(fr, pg, order)]

\* A run of the script from the top, lines 1-56, with the widgets at the
\* given values.  load_data() first looks the entry up without the lock.
RunFrom(s, pg, sel, idx) ==
    /\ page' = [page EXCEPT ![s] = pg]
    /\ scenarios' = [scenarios EXCEPT ![s] = sel]
    /\ segIdx' = [segIdx EXCEPT ![s] = idx]
    /\ IF cache # <<>>
       THEN Completed(s, Chrome(disk), cache, pg, sel, idx)
       ELSE /\ pc' = [pc EXCEPT ![s] = "wait"]
            /\ out' = [out EXCEPT ![s] = Chrome(disk)]
            /\ frames' = [frames EXCEPT ![s] = <<>>]
    /\ UNCHANGED <<disk, cache, lock, reads>>

Rendered(s, kind) == pc[s] = "done" /\ \E i \in 1..Len(out[s]) : out[s][i].kind = kind

\* The session connects, or the user asks for a rerun.
Rerun(s) ==
    /\ pc[s] \in {"idle", "done"}
    /\ RunFrom(s, page[s], scenarios[s], segIdx[s])

\* The user picks a page in the sidebar; the widgets of the page left are
\* gone and start from their defaults when drawn again.
SelectPage(s, pg) ==
    /\ Rendered(s, "radio")
    /\ pg # page[s]
    /\ RunFrom(s, pg, <<"Base_Forecast">>, 1)

SelectScenarios(s, opt) ==
    /\ Rendered(s, "multiselect")
    /\ RunFrom(s, page[s], Toggle(scenarios[s], opt), segIdx[s])

SelectSegment(s, idx) ==
    /\ Rendered(s, "selectbox")
    /\ idx # segIdx[s]
    /\ idx \in 1..Len(Unique(Col(frames[s], "roi_df", "Segment"), {}))
    /\ RunFrom(s, page[s], scenarios[s], idx)

\* st.cache_data on a miss: take the entry's lock, look again, and only
\* then run the body.
Recheck_Skipped(s) == FALSE

Recheck(s) == cache # <<>>

AcquireLock(s) ==
    /\ pc[s] = "wait"
    /\ lock = "free"
    /\ IF Recheck(s)
       THEN /\ Completed(s, out[s], cache, page[s], scenarios[s], segIdx[s])
            /\ UNCHANGED lock
       ELSE /\ lock' = s
            /\ pc' = [pc EXCEPT ![s] = "compute"]
            /\ UNCHANGED <<out, frames>>
    /\ UNCHANGED <<disk, cache, reads, page, scenarios, segIdx>>

\* The body of load_data() returns: the tables are stored and the run goes on.
ComputeOk(s) ==
    /\ pc[s] = "compute"
    /\ lock = s
    /\ reads < MaxReads
    /\ load_data(disk).ok
    /\ cache' = <<load_data(disk).value>>
    /\ reads' = reads + 1
    /\ lock' = "free"
    /\ Completed(s, out[s], <<load_data(disk).value>>, page[s], scenarios[s], segIdx[s])
    /\ UNCHANGED <<disk, page, scenarios, segIdx>>

\* The body of load_data() raises: nothing is stored, lines 57-59 show the
\* error and stop the run.
ComputeFail(s) ==
    /\ pc[s] = "compute"
    /\ lock = s
    /\ reads < MaxReads
    /\ ~load_data(disk).ok
    /\ reads' = reads + 1
    /\ lock' = "free"
    /\ pc' = [pc EXCEPT ![s] = "done"]
    /\ frames' = [frames EXCEPT ![s] = <<>>]
    /\ out' = [out EXCEPT ![s] =
                 out[s] \o <<El("error", "Critical Error: Data files not found",
                                <<load_data(disk).err>>)>>
                        \o AfterLoadError(Script(<<>>, page[s], scenarios[s], segIdx[s], <<>>))]
    /\ UNCHANGED <<disk, cache, page, scenarios, segIdx>>

\* Somebody replaces the files.
ModifyFiles(d) ==
    /\ d # disk
    /\ disk' = d
    /\ UNCHANGED <<cache, lock, reads, pc, page, scenarios, segIdx, frames, out>>

Next ==
    \/ \E s \in Sessions : Rerun(s)
    \/ \E s \in Sessions, pg \in {PAGES[i] : i \in 1..Len(PAGES)} : SelectPage(s, pg)
    \/ \E s \in Sessions, i \in 1..Len(SCENARIO_OPTIONS) :
          SelectScenarios(s, SCENARIO_OPTIONS[i])
    \/ \E s \in Sessions, idx \in 1..MaxRows : SelectSegment(s, idx)
    \/ \E s \in Sessions : AcquireLock(s)
    \/ \E s \in Sessions : ComputeOk(s)
    \/ \E s \in Sessions : ComputeFail(s)
    \/ \E d \in Edits : ModifyFiles(d)

Spec == Init /\ [][Next]_vars

\* One session over well-formed files of every shape.
ViewNext ==
    \/ Rerun("s1")
    \/ \E pg \in {PAGES[i] : i \in 1..Len(PAGES)} : SelectPage("s1", pg)
    \/ \E i \in 1..Len(SCENARIO_OPTIONS) : SelectScenarios("s1", SCENARIO_OPTIONS[i])
    \/ \E idx \in 1..MaxRows : SelectSegment("s1", idx)
    \/ AcquireLock("s1")
    \/ ComputeOk("s1")

ViewSpec == ViewInit /\ [][ViewNext]_vars

----------------------------------------------------------------------------
\* Properties.

Done(s) == pc[s] = "done"

OnPage(s, pg) == Done(s) /\ page[s] = pg /\ Bound(frames[s])

Shows(s, kind, label) ==
    \E i \in 1..Len(out[s]) : out[s][i].kind = kind /\ out[s][i].label = label

\* The element of that kind and label in the output of session s.
Shown(s, kind, label) ==
    out[s][CHOOSE i \in 1..Len(out[s]) : out[s][i].kind = kind /\ out[s][i].label = label]

Raised(s) == \E i \in 1..Len(out[s]) : out[s][i].kind = "exception"

LoadFailed(s) == \E i \in 1..Len(out[s]) : out[s][i].kind = "error"

ViewKinds ==
    {"sidebar_header", "radio", "header", "subheader", "metric", "plotly_chart",
     "dataframe", "multiselect", "selectbox", "exception"}

\* C1: when load_data() fails in a run, the error is shown and the run
\* halts there: the error is the last thing on the page, and no navigation
\* control, KPI tile, chart or page widget is rendered in that run.
C1_LoadFailureHalts ==
    \A s \in Sessions :
        LoadFailed(s) =>
            /\ Done(s)
            /\ ~Bound(frames[s])
            /\ out[s][Len(out[s])].kind = "error"
            /\ \A i \in 1..Len(out[s]) : out[s][i].kind \notin ViewKinds

C1_Witness ==
    \E s \in Sessions :
        LoadFailed(s) /\ out[s][Len(out[s])].data = <<"FileNotFoundError">>

\* C2 as stated: the body of load_data() executes at most once in the
\* life of the process.
C2_BodyRunsAtMostOnce == reads <= 1

\* C2 as amended: once load_data() has returned tables, its body never runs
\* again and the stored tables never change, whatever happens to the files,
\* and every run that has tables has the stored ones; a body that raised
\* stored nothing, so it runs again in the next call.
C2_NoReadOnceCached ==
    [][cache # <<>> =>
          /\ reads' = reads
          /\ cache' = cache
          /\ \A s \in Sessions : Bound(frames'[s]) => frames'[s] = cache]_vars

C2_Witness ==
    /\ cache # <<>>
    /\ reads = 1
    /\ ~load_data(disk).ok
    /\ \A s \in Sessions : Done(s) /\ frames[s] = cache

AllColumns(t) ==
    /\ t.forecast_df.cols = FORECAST_COLS
    /\ t.roi_df.cols = ROI_COLS
    /\ t.segment_df.cols = SEGMENT_COLS

\* C3 as stated: load_data() never returns tables of which one lacks a
\* required column.
C3_NoTableLacksAColumn ==
    /\ cache # <<>> => AllColumns(cache[1])
    /\ \A s \in Sessions : Bound(frames[s]) => AllColumns(frames[s][1])

\* C3 as amended: the only column load_data() needs is the forecast file's
\* Date: the tables it returns always have Date, parsed day first (the
\* files' first row, "31/01/2025", as 31 January 2025), and may lack any
\* other column.
C3_OnlyDateIsChecked ==
    \A s \in Sessions :
        Bound(frames[s]) =>
            LET fc == frames[s][1].forecast_df
            IN  /\ "Date" \in fc.cols
                /\ \A i \in 1..Len(fc.rows) :
                      /\ DOMAIN fc.rows[i]["Date"] = {"year", "month", "day"}
                      /\ fc.rows[i]["Date"].month \in 1..12
                /\ fc.rows # <<>> =>
                      fc.rows[1]["Date"] = [year |-> 2025, month |-> 1, day |-> 31]

C3_Witness ==
    \E s \in Sessions :
        /\ Done(s) /\ Bound(frames[s])
        /\ "ROI" \notin frames[s][1].roi_df.cols
        /\ ~LoadFailed(s)

TraceNames(traces) == [i \in 1..Len(traces) |-> traces[i].name]

ForecastChart(s) == Shown(s, "plotly_chart", "6-Month Revenue Projection")

\* C4 as stated: with an empty scenario selection the forecast chart holds
\* the confidence band and exactly one line, Base_Forecast.
C4_EmptySelectionDrawsBase ==
    \A s \in Sessions :
        (OnPage(s, "Revenue Forecasting") /\ scenarios[s] = <<>>) =>
            /\ Shows(s, "plotly_chart", "6-Month Revenue Projection")
            /\ TraceNames(ForecastChart(s).data)
                 = <<"95% Confidence Interval", "Base_Forecast">>

\* C4 as amended: the selection starts as [Base_Forecast]; the chart holds
\* the confidence band and then one line per selected scenario, in the
\* order selected, so with an empty selection it holds the band alone.
C4_LinesFollowSelection ==
    \A s \in Sessions :
        /\ pc[s] = "idle" => scenarios[s] = <<"Base_Forecast">>
        /\ OnPage(s, "Revenue Forecasting") =>
              /\ Shows(s, "plotly_chart", "6-Month Revenue Projection")
              /\ TraceNames(ForecastChart(s).data)
                   = <<"95% Confidence Interval">> \o scenarios[s]
              /\ Shown(s, "multiselect", "Select Scenarios to Compare:").data = scenarios[s]

C4_Witness ==
    \E s \in Sessions :
        /\ OnPage(s, "Revenue Forecasting")
        /\ scenarios[s] = <<>>
        /\ TraceNames(ForecastChart(s).data) = <<"95% Confidence Interval">>

RoiRows(s) == frames[s][1].roi_df.rows

\* The value of the segment selectbox in the output of session s.
SelSeg(s) == Shown(s, "selectbox", "Select Segment for Detailed Metrics:").data[2]

MatchCount(s) == Cardinality({i \in 1..Len(RoiRows(s)) : RoiRows(s)[i]["Segment"] = SelSeg(s)})

FirstMatch(s) ==
    CHOOSE i \in 1..Len(RoiRows(s)) :
        /\ RoiRows(s)[i]["Segment"] = SelSeg(s)
        /\ \A j \in 1..(i - 1) : RoiRows(s)[j]["Segment"] # SelSeg(s)

DetailMetrics == {"ROI Ratio", "Break-Even Revenue", "Profit Multiplier"}

\* C5 as stated: the deep dive shows metrics only when exactly one row has
\* the selected Segment.
C5_MetricsOnlyForUniqueMatch ==
    \A s \in Sessions :
        (OnPage(s, "ROI Analysis") /\ \E m \in DetailMetrics : Shows(s, "metric", m)) =>
            MatchCount(s) = 1

\* C5 as amended: when at least one row has the selected Segment, the deep
\* dive shows the metrics of the first such row in table order, also when
\* several rows match; only when no row matches (an empty ROI table) does
\* the lookup fail, with an IndexError, and no metric is shown.
C5_FirstMatchIsShown ==
    \A s \in Sessions :
        OnPage(s, "ROI Analysis") =>
            IF RoiRows(s) = <<>>
            THEN /\ SelSeg(s) = "None"
                 /\ out[s][Len(out[s])] = Exc("IndexError", "iloc")
                 /\ \A m \in DetailMetrics : ~Shows(s, "metric", m)
            ELSE /\ MatchCount(s) >= 1
                 /\ \A m \in DetailMetrics : Shows(s, "metric", m)
                 /\ Shown(s, "metric", "ROI Ratio").data[1]
                      = FromInt(RoiRows(s)[FirstMatch(s)]["ROI"])
                 /\ Shown(s, "metric", "Break-Even Revenue").data[1]
                      = FromInt(RoiRows(s)[FirstMatch(s)]["BreakEven_Revenue"])

C5_Witness ==
    \E s \in Sessions :
        /\ OnPage(s, "ROI Analysis")
        /\ MatchCount(s) = 2
        /\ RoiRows(s)[1]["ROI"] # RoiRows(s)[2]["ROI"]
        /\ Shown(s, "metric", "ROI Ratio").data[1] = FromInt(RoiRows(s)[1]["ROI"])

\* The one row order a stable descending sort by ROI produces.
SortOrders_Stable(roi) ==
    LET n == Len(roi)
    IN  {p \in Perms(n) : \A i, j \in 1..n :
            i < j => \/ roi[p[i]] > roi[p[j]]
                     \/ (roi[p[i]] = roi[p[j]] /\ p[i] < p[j])}

RoiBar(s) == Shown(s, "plotly_chart", "ROI Efficiency per Segment").data[1]

AvgTile(s) == Shown(s, "metric", "Avg ROI Multiplier")

\* C7 as stated: on an ROI table without rows the average-ROI KPI fails and
\* no value is displayed; on a table of one row it is that row's ROI.
C7_EmptyTableShowsNoAverage ==
    \A s \in Sessions :
        OnPage(s, "Executive Summary") =>
            /\ RoiRows(s) = <<>> => ~Shows(s, "metric", "Avg ROI Multiplier")
            /\ Len(RoiRows(s)) = 1 => AvgTile(s).data[1] = FromInt(RoiRows(s)[1]["ROI"])

\* C7 as amended: on an ROI table without rows the average ROI is NaN, no
\* error is raised and the tile displays "nan"; on a table of one row it is
\* that row's ROI exactly.
C7_AverageOfEmptyIsNaN ==
    \A s \in Sessions :
        OnPage(s, "Executive Summary") =>
            /\ Shows(s, "metric", "Avg ROI Multiplier")
            /\ RoiRows(s) = <<>> =>
                  /\ AvgTile(s).data[1].cls = "nan"
                  /\ AvgTile(s).data[2].text = "nan"
            /\ Len(RoiRows(s)) = 1 =>
                  /\ AvgTile(s).data[1] = FromInt(RoiRows(s)[1]["ROI"])
                  /\ AvgTile(s).data[2].scaled = 10 * RoiRows(s)[1]["ROI"]

C7_Witness ==
    \E s \in Sessions :
        /\ OnPage(s, "Executive Summary")
        /\ RoiRows(s) = <<>>
        /\ AvgTile(s).data[2].text = "nan"

ProfitTile(s) == Shown(s, "metric", "Profit Multiplier")

\* C8 as stated: for a selected row whose Investment is 0 no Profit
\* Multiplier value is displayed.
C8_NoMultiplierForZeroInvestment ==
    \A s \in Sessions :
        (OnPage(s, "ROI Analysis") /\ RoiRows(s) # <<>>) =>
            (RoiRows(s)[FirstMatch(s)]["Investment"] = 0 =>
                ~Shows(s, "metric", "Profit Multiplier"))

\* C8 as amended: the profit multiplier of the selected row is
\* Projected_Gain / Investment when Investment is non-zero; when Investment
\* is 0 nothing is raised, the quotient is infinite (NaN when Projected_Gain
\* is 0 too) and the tile displays it.
C8_MultiplierIsFloatQuotient ==
    \A s \in Sessions :
        (OnPage(s, "ROI Analysis") /\ RoiRows(s) # <<>>) =>
            LET row == RoiRows(s)[FirstMatch(s)]
                v == ProfitTile(s).data[1]
            IN  /\ Shows(s, "metric", "Profit Multiplier")
                /\ row["Investment"] # 0 =>
                      /\ v.cls = "fin"
                      /\ v.num * row["Investment"] = row["Projected_Gain"] * v.den
                /\ row["Investment"] = 0 =>
                      /\ v.cls = (IF row["Projected_Gain"] = 0 THEN "nan" ELSE "inf")
                      /\ ProfitTile(s).data[2].text = v.cls

C8_Witness ==
    \E s \in Sessions :
        /\ OnPage(s, "ROI Analysis") /\ RoiRows(s) # <<>>
        /\ RoiRows(s)[FirstMatch(s)]["Investment"] = 0
        /\ ProfitTile(s).data[2].text = "inf"

\* The last output of each page, and whether its own statement can be built.
FinalOutput(s) ==
    IF page[s] = "Executive Summary" THEN <<"plotly_chart", "ROI Efficiency per Segment">>
    ELSE IF page[s] = "Customer Segmentation" THEN <<"plotly_chart", "Monetary bar">>
    ELSE IF page[s] = "Revenue Forecasting"
    THEN <<"info", "Shaded area represents the statistical variance of the Base Forecast.">>
    ELSE <<"metric", "Profit Multiplier">>

FinalOutputBuilds(s) ==
    IF page[s] = "Executive Summary" THEN Has(frames[s], "roi_df", {"ROI", "Segment"})
    ELSE IF page[s] = "Customer Segmentation"
    THEN Has(frames[s], "segment_df", {"Cluster", "Avg_Monetary", "Decision_Action"})
    ELSE IF page[s] = "Revenue Forecasting" THEN TRUE
    ELSE Has(frames[s], "roi_df", {"Projected_Gain", "Investment"}) /\ RoiRows(s) # <<>>

\* C9 as stated: a chart or metric that fails does not end the run: what
\* the view places after it is still rendered.
C9_FailureIsConfined ==
    \A s \in Sessions :
        (Done(s) /\ Bound(frames[s]) /\ Raised(s) /\ FinalOutputBuilds(s)) =>
            Shows(s, FinalOutput(s)[1], FinalOutput(s)[2])

\* C9 as amended: a chart or metric that fails ends the run there: what was
\* rendered before it stays, the exception is shown in its place, and
\* nothing the view places after it is rendered.
C9_FailureEndsTheRun ==
    \A s \in Sessions :
        \A i \in 1..Len(out[s]) :
            out[s][i].kind = "exception" =>
                /\ i = Len(out[s])
                /\ Done(s)
                /\ Shows(s, "radio", "Navigate to:")

C9_Witness ==
    \E s \in Sessions :
        /\ OnPage(s, "Customer Segmentation")
        /\ out[s][Len(out[s])] = Exc("ValueError", "Customer_Count")
        /\ Shows(s, "dataframe", "segment_df")
        /\ FinalOutputBuilds(s)
        /\ ~Shows(s, "plotly_chart", "Monetary bar")

\* C10: the tables a run works on are, at every moment, the tables
\* load_data() returned: no page changes their rows, the order of their rows
\* or their values, and the grouped Investment / Projected Gain bars are in
\* table order.
C10_TablesNeverChange ==
    \A s \in Sessions :
        Bound(frames[s]) =>
            /\ load_data(disk).ok
            /\ frames[s][1] = load_data(disk).value
            /\ cache = <<load_data(disk).value>>
            /\ OnPage(s, "ROI Analysis") =>
                  LET bars == Shown(s, "plotly_chart", "Investment vs Gain").data
                  IN  \A k \in 1..2 :
                          bars[k].x = Column(read_csv(disk.roi), "Segment")

C10_Witness ==
    \E s \in Sessions :
        /\ OnPage(s, "Executive Summary")
        /\ Len(RoiRows(s)) = 2
        /\ RoiRows(s)[1]["ROI"] < RoiRows(s)[2]["ROI"]
        /\ RoiBar(s).y = <<RoiRows(s)[2]["ROI"], RoiRows(s)[1]["ROI"]>>
        /\ frames[s][1].roi_df = read_csv(disk.roi)

====
